---- MODULE Spec2Model ----
(***************************************************************************)
(* A model of NgccProcessor (packages/ngtools/webpack/src/                 *)
(* ngcc_processor.ts): the whole-tree run gate process(), the per-module   *)
(* processModule()/invalidate(), and the resolution helpers they use.      *)
(*                                                                         *)
(* Paths are sequences of segments (<<>> is the filesystem root), file     *)
(* contents and digests are sequences of bytes.  The SHA-256 digest is     *)
(* modelled as collision-free over the byte stream it is fed: the digest   *)
(* of a stream is the stream itself, so two digests are equal exactly when *)
(* the concatenations of the update() arguments are equal.                 *)
(***************************************************************************)
EXTENDS Integers, Sequences, FiniteSets, TLC

VARIABLES
  nodeModulesDirectory, \* this._nodeModulesDirectory: [found, path]
  processedModules,     \* this._processedModules
  title,                \* process.title
  bazelTarget,          \* process.env.BAZEL_TARGET is set
  fsNodeModules,        \* the directories that contain a node_modules directory
  lockFiles,            \* candidate index -> [readable, data]
  ngccConfig,           \* <project>/ngcc.config.js: [readable, data]
  tsconfig,             \* the file at tsConfigPath: [readable, data]
  markers,              \* the digests D with <nodeModules>/.cli-ngcc/D.lock on disk
  runHashDirExists,     \* <nodeModules>/.cli-ngcc exists
  edits,                \* number of changes made to the files so far
  last,                 \* what the most recent operation did
  written,              \* history: each marker written, with the files it was written under
  invoked,              \* history: the ngcc.process calls made (kept by SpecModule only)
  compilationErrors,    \* the errors list handed to the constructor (kept by SpecModule only)
  builds,               \* the build processes of SpecBuilds, each inside its process() call
  walk,                 \* the loop of findNodeModulesDirectory, one iteration at a time
  hashA, hashB          \* two independent fingerprint computations

vars == <<nodeModulesDirectory, processedModules, title, bazelTarget, fsNodeModules,
          lockFiles, ngccConfig, tsconfig, markers, runHashDirExists, edits, last,
          written, invoked, compilationErrors, builds, walk, hashA, hashB>>

gateVars == <<nodeModulesDirectory, processedModules, title, bazelTarget, fsNodeModules,
              lockFiles, ngccConfig, tsconfig, markers, runHashDirExists, edits, last,
              written, invoked, compilationErrors, builds, walk>>

(***************************************************************************)
(* Bounds of the model.                                                    *)
(***************************************************************************)
MaxEdits == 1

(***************************************************************************)
(* Paths and byte streams.                                                 *)
(***************************************************************************)
Unreadable == [readable |-> FALSE, data |-> <<>>]

File(d) == [readable |-> TRUE, data |-> d]

NoPath == [found |-> FALSE, path |-> <<>>]

SomePath(p) == [found |-> TRUE, path |-> p]

\* path.dirname on an absolute, normalised path; the root is its own parent.
dirname(p) == IF p = <<>> THEN <<>> ELSE SubSeq(p, 1, Len(p) - 1)

\* path.join(p, name) for a single segment; '..' steps to the parent.
join(p, name) == IF name = ".." THEN dirname(p) ELSE Append(p, name)

RECURSIVE CommonPrefixLen(_, _)
CommonPrefixLen(p, q) ==
  IF p # <<>> /\ q # <<>> /\ Head(p) = Head(q)
    THEN 1 + CommonPrefixLen(Tail(p), Tail(q))
    ELSE 0

\* path.relative(from, to) on absolute, normalised paths: one '..' for every
\* segment of `from` below the common ancestor, then the rest of `to`.
relative(from, to) ==
  LET n == CommonPrefixLen(from, to)
  IN  [i \in 1..(Len(from) - n) |-> ".."] \o SubSeq(to, n + 1, Len(to))

RECURSIVE AbsoluteBytes(_)
\* The characters of an absolute path: '/' before every segment.
AbsoluteBytes(p) ==
  IF p = <<>> THEN <<>> ELSE <<"/", Head(p)>> \o AbsoluteBytes(Tail(p))

\* The characters of a relative path: '/' between the segments.
RelativeBytes(p) == IF p = <<>> THEN <<>> ELSE Tail(AbsoluteBytes(p))

(***************************************************************************)
(* Events: the calls an operation makes on its collaborators, in order.    *)
(***************************************************************************)
\* An event is a call, its argument and whether it succeeded: ok is FALSE when
\* the call threw (for existsSync: returned false; for spawnSync: the status
\* was not 0).
\* `ret` is what the call returned, where the model follows it (<<>> elsewhere).
Ret(kind, arg, ok, ret) == [kind |-> kind, arg |-> arg, ok |-> ok, ret |-> ret]

Call(kind, arg, ok) == Ret(kind, arg, ok, <<>>)

Ev(kind, arg) == Call(kind, arg, TRUE)

Has(events, kind) == \E i \in 1..Len(events) : events[i].kind = kind

Succeeded(events, kind) ==
  \E i \in 1..Len(events) : events[i].kind = kind /\ events[i].ok

Failed(events, kind) ==
  \E i \in 1..Len(events) : events[i].kind = kind /\ ~events[i].ok

Count(events, kind) == Cardinality({i \in 1..Len(events) : events[i].kind = kind})

NoHash == [defined |-> FALSE, hash |-> <<>>]

SomeHash(h) == [defined |-> TRUE, hash |-> h]

(***************************************************************************)
(* Resolution helpers.                                                     *)
(***************************************************************************)
\* A loop condition that never sees the root.
atRoot_Never(current) == FALSE

\* The negated loop condition: path.dirname(current) === current.
atRoot(current) == dirname(current) = current

RECURSIVE findNodeModulesDirectory(_, _)
\* Walk from `current` to its parents; `fs` is the set of directories that
\* contain a node_modules directory.  The loop stops at the root without
\* probing it.
findNodeModulesDirectory(fs, current) ==
  IF atRoot(current)
    THEN NoPath
    ELSE IF current \in fs
      THEN SomePath(join(current, "node_modules"))
      ELSE findNodeModulesDirectory(fs, dirname(current))

LockFileNames == <<"yarn.lock", "pnpm-lock.yaml", "package-lock.json">>

\* A lookup with no try around the read: the first candidate decides.
findLockFileFrom_StopsAtFirst(files, projectBasePath, i) ==
  IF files[i].readable
    THEN [threw |-> FALSE, lockFilePath |-> join(projectBasePath, LockFileNames[i]),
          lockFileData |-> files[i].data, tried |-> i]
    ELSE [threw |-> TRUE, lockFilePath |-> <<>>, lockFileData |-> <<>>, tried |-> i]

RECURSIVE findLockFileFrom(_, _, _)
\* The for loop of findPackageManagerLockFile from candidate i on: a failed
\* read is swallowed and the next candidate is tried.
findLockFileFrom(files, projectBasePath, i) ==
  IF i > Len(LockFileNames)
    THEN [threw |-> TRUE, lockFilePath |-> <<>>, lockFileData |-> <<>>,
          tried |-> Len(LockFileNames)]
    ELSE IF files[i].readable
      THEN [threw |-> FALSE, lockFilePath |-> join(projectBasePath, LockFileNames[i]),
            lockFileData |-> files[i].data, tried |-> i]
      ELSE findLockFileFrom(files, projectBasePath, i + 1)

findPackageManagerLockFile(files, projectBasePath) ==
  findLockFileFrom(files, projectBasePath, 1)

\* createHash('sha256')....digest('hex'), collision-free over its input stream.
Digest(stream) == stream

\* A fingerprint that leaves out .update(ngccConfigData).
runHashOf_DropsConfig(lockFileData, lockFilePath, ngccConfigData, tsconfigData, relativeTsconfigPath) ==
  Digest(lockFileData \o AbsoluteBytes(lockFilePath)
         \o tsconfigData \o RelativeBytes(relativeTsconfigPath))

\* The five update() calls, in the order of the source.
runHashOf(lockFileData, lockFilePath, ngccConfigData, tsconfigData, relativeTsconfigPath) ==
  Digest(lockFileData \o AbsoluteBytes(lockFilePath) \o ngccConfigData
         \o tsconfigData \o RelativeBytes(relativeTsconfigPath))

\* isReadOnlyFile: accessSync(fileName, W_OK) throws exactly when the file is
\* not in the set of writable files.
isReadOnlyFile(writable, fileName) == fileName \notin writable

\* A Resolver outcome: it raises, or returns a path (<<>> is an empty result).
Raises == [threw |-> TRUE, path |-> <<>>]

Returns(p) == [threw |-> FALSE, path |-> p]

\* A fallback that is also taken when the Resolver returns an empty result.
tryResolvePackage_FallsBackOnEmpty(res, onDisk, moduleName, resolvedFileName) ==
  LET packageJsonPath == join(join(resolvedFileName, ".."), "package.json")
      fallback == <<Call("existsSync", packageJsonPath, packageJsonPath \in onDisk)>>
      found == IF packageJsonPath \in onDisk THEN SomePath(packageJsonPath) ELSE NoPath
  IN  IF ~res.threw /\ res.path # <<>>
        THEN [package |-> SomePath(res.path),
              events |-> <<Ret("resolveSync", moduleName, TRUE, res.path)>>]
        ELSE [package |-> found,
              events |-> <<Ret("resolveSync", moduleName, ~res.threw, <<>>)>> \o fallback]

\* tryResolvePackage: `res` is what resolveSync does for <moduleName>/package.json,
\* `onDisk` the set of package.json files that exist.
tryResolvePackage(res, onDisk, moduleName, resolvedFileName) ==
  IF ~res.threw
    THEN [package |-> IF res.path # <<>> THEN SomePath(res.path) ELSE NoPath,
          events |-> <<Ret("resolveSync", moduleName, TRUE, res.path)>>]
    ELSE LET packageJsonPath == join(join(resolvedFileName, ".."), "package.json")
         IN  [package |-> IF packageJsonPath \in onDisk
                            THEN SomePath(packageJsonPath) ELSE NoPath,
              events |-> <<Call("resolveSync", moduleName, FALSE),
                           Call("existsSync", packageJsonPath,
                                packageJsonPath \in onDisk)>>]

(***************************************************************************)
(* process(): the whole-tree run gate.                                     *)
(***************************************************************************)
\* The readFileSync calls findPackageManagerLockFile made: candidates 1..tried.
LockReads(files, projectBasePath, tried) ==
  [i \in 1..tried |->
     Call("readFileSync", join(projectBasePath, LockFileNames[i]), files[i].readable)]

\* A check that never finds the run hash file.
markerExists_Never(mk, runHash) == FALSE

\* existsSync(runHashFilePath)
markerExists(mk, runHash) == runHash \in mk

\* A catch block that fails closed: an error skips the run.
onCheckError_Skips == [runHash |-> NoHash, skipProcessing |-> TRUE]

\* A catch block that still leaves a run hash file path behind.
onCheckError_RecordsPath == [runHash |-> SomeHash(<<>>), skipProcessing |-> FALSE]

\* catch { /* Any error means an ngcc execution is needed */ }
onCheckError == [runHash |-> NoHash, skipProcessing |-> FALSE]

\* A read that turns a missing ngcc.config.js into the text 'undefined'.
readNgccConfig_Undefined(ncfg) == IF ncfg.readable THEN ncfg.data ELSE <<"undefined">>

\* let ngccConfigData = ''; try { readFileSync(ngcc.config.js) } catch {}
readNgccConfig(ncfg) == IF ncfg.readable THEN ncfg.data ELSE <<>>

\* The run check: the outer try of process().  Yields the run hash (if one was
\* computed) and skipProcessing.  An unreadable ngcc.config.js is read as '';
\* an unreadable tsconfig or a failed lock file lookup leaves the try block.
runCheck(nm, tsConfigPath, files, ncfg, ts, mk) ==
  LET projectBasePath == join(nm, "..")
      ngccConfigData == readNgccConfig(ncfg)
      relativeTsconfigPath == relative(projectBasePath, tsConfigPath)
      readConfigs ==
        <<Call("readFileSync", join(projectBasePath, "ngcc.config.js"), ncfg.readable),
          Call("readFileSync", tsConfigPath, ts.readable)>>
      lock == findPackageManagerLockFile(files, projectBasePath)
      lockReads == LockReads(files, projectBasePath, lock.tried)
      runHash == runHashOf(lock.lockFileData, lock.lockFilePath, ngccConfigData,
                           ts.data, relativeTsconfigPath)
      Result(c, events) ==
        [runHash |-> c.runHash, skipProcessing |-> c.skipProcessing, events |-> events]
  IN  IF ~ts.readable
        THEN Result(onCheckError, readConfigs)
        ELSE IF lock.threw
          THEN Result(onCheckError, readConfigs \o lockReads)
          ELSE Result([runHash |-> SomeHash(runHash),
                       skipProcessing |-> markerExists(mk, runHash)],
                      readConfigs \o lockReads
                        \o <<Call("existsSync", runHash, runHash \in mk)>>)

\* What spawnSync can report: exit status 0, a non-zero status, or a null
\* status, with an error (the spawn failed) or without (killed by a signal).
SpawnResults ==
  { [status |-> "0", error |-> ""], [status |-> "1", error |-> ""],
    [status |-> "null", error |-> "spawn ENOENT"], [status |-> "null", error |-> ""] }

\* A status check that passes whatever spawnSync reports.
spawnFailure_IgnoresStatus(sp) == <<>>

\* A status check written as `if (status)`: a null status passes.
spawnFailure_NullPasses(sp) ==
  IF sp.status \notin {"0", "null"}
    THEN IF sp.error # "" THEN <<sp.error, "NGCC failed, see above.">>
                          ELSE <<"NGCC failed.">>
    ELSE <<>>

\* The message of the Error thrown after the spawn (<<>> when none is thrown).
spawnFailure(sp) ==
  IF sp.status # "0"
    THEN IF sp.error # "" THEN <<sp.error, "NGCC failed, see above.">>
                          ELSE <<"NGCC failed.">>
    ELSE <<>>

\* A write that does not leave the run hash file behind.
addMarker_Lost(mk, hash) == mk

\* A write that keeps one run hash file: the earlier ones are removed.
addMarker_Replaces(mk, hash) == {hash}

\* writeFileSync(runHashFilePath, '')
addMarker(mk, hash) == mk \cup {hash}

\* A catch block that lets the error of the write through.
onWriteError_Rethrows == <<"EACCES">>

\* catch { /* Errors are non-fatal */ }: nothing is thrown.
onWriteError == <<>>

\* Writing the run hash file after a successful run; every error is swallowed.
\* `threw` is what leaves the try block.
writeRunHash(check, dirExists, mk, mkdirFails, writeFails) ==
  LET base == <<".cli-ngcc">>
      hash == check.runHash.hash
      withMarker == IF writeFails THEN mk ELSE addMarker(mk, hash)
      thrown == IF writeFails THEN onWriteError ELSE <<>>
  IN  IF ~check.runHash.defined
        THEN [markers |-> mk, dirExists |-> dirExists, events |-> <<>>, threw |-> <<>>]
        ELSE IF dirExists
          THEN [markers |-> withMarker, dirExists |-> TRUE,
                events |-> <<Ev("existsSync", base),
                             Call("writeFileSync", hash, ~writeFails)>>,
                threw |-> thrown]
          ELSE IF mkdirFails
            THEN [markers |-> mk, dirExists |-> FALSE,
                  events |-> <<Call("existsSync", base, FALSE),
                               Call("mkdirSync", base, FALSE)>>,
                  threw |-> onWriteError]
            ELSE [markers |-> withMarker, dirExists |-> TRUE,
                  events |-> <<Call("existsSync", base, FALSE), Ev("mkdirSync", base),
                               Call("writeFileSync", hash, ~writeFails)>>,
                  threw |-> thrown]

\* The constructor arguments basePath and tsConfigPath.
BasePath == <<"p", "s">>

TsConfigPath == <<"p", "tsconfig.json">>

Titles == {"ng", "ngcc"}

CoreManifest(nm) == nm \o <<"@angular", "core", "package.json">>

ProjectManifest(nm) == join(join(nm, ".."), "package.json")

\* What resolving and probing @angular/core can meet: the Resolver's outcome,
\* the package.json files on disk and the manifests that are writable.
CoreProbes ==
  LET nm == nodeModulesDirectory.path
      Probe(res, onDisk, writable) ==
        [res |-> res, onDisk |-> onDisk, writable |-> writable]
  IN  { Probe(Returns(CoreManifest(nm)), {}, {CoreManifest(nm)}),
        Probe(Returns(CoreManifest(nm)), {}, {}),
        Probe(Returns(<<>>), {ProjectManifest(nm)}, {}),
        Probe(Returns(<<>>), {}, {}),
        Probe(Raises, {}, {}),
        Probe(Raises, {ProjectManifest(nm)}, {ProjectManifest(nm)}),
        Probe(Raises, {ProjectManifest(nm)}, {}) }

\* How writing the run hash file can go: both calls succeed, mkdirSync throws,
\* or writeFileSync throws.
WriteFaults ==
  { [mkdirFails |-> FALSE, writeFails |-> FALSE],
    [mkdirFails |-> TRUE, writeFails |-> FALSE],
    [mkdirFails |-> FALSE, writeFails |-> TRUE] }

Outcome(decision, events, threw, runHash, mk, dirExists) ==
  [decision |-> decision, events |-> events, threw |-> threw, runHash |-> runHash,
   markers |-> mk, dirExists |-> dirExists]

\* An early return that does not look at the sandbox variable.
skipEarly_IgnoresBazel == ~nodeModulesDirectory.found

\* The early returns of process(): the sandbox variable or no node_modules.
skipEarly == bazelTarget \/ ~nodeModulesDirectory.found

\* A gate without `corePackage &&`: a manifest that was not located counts as
\* read-only.
skipReadOnly_WhenMissing(corePackage, writable) ==
  ~corePackage.found \/ isReadOnlyFile(writable, corePackage.path)

\* A gate without the read-only check.
skipReadOnly_Never(corePackage, writable) == FALSE

\* Whether process() returns because node_modules is read-only.
skipReadOnly(corePackage, writable) ==
  corePackage.found /\ isReadOnlyFile(writable, corePackage.path)

\* An exit that leaves the title the subprocess run ended with.
restoreTitle_Leaves(originalProcessTitle, current) == current

\* finally { process.title = originalProcessTitle }
restoreTitle(originalProcessTitle, current) == originalProcessTitle

NoModule == <<>>

Last(op, moduleName, file, r) ==
  [op |-> op, moduleName |-> moduleName, file |-> file, decision |-> r.decision,
   events |-> r.events, threw |-> r.threw, runHash |-> r.runHash]

\* The assignments every path through process() ends with.
Return(r, newTitle) ==
  /\ markers' = r.markers
  /\ runHashDirExists' = r.dirExists
  /\ title' = newTitle
  /\ last' = Last("process", <<>>, NoModule, r)
  /\ written' = IF r.markers = markers
                  THEN written
                  ELSE written \cup {[hash |-> r.runHash.hash, lockFiles |-> lockFiles,
                                      ngccConfig |-> ngccConfig, tsconfig |-> tsconfig,
                                      n |-> Cardinality(written)]}
  /\ UNCHANGED <<nodeModulesDirectory, processedModules, bazelTarget, fsNodeModules,
                 lockFiles, ngccConfig, tsconfig, edits, invoked, hashA, hashB, compilationErrors,
                 builds, walk>>

\* From the spawn on: the exit status decides between the throw and the
\* marker write; the title is restored on both paths.  The spawnSync event
\* carries what the call reported: <<status, error message>>.
runNgcc(check, before) ==
  \E sp \in SpawnResults, titleDuring \in Titles :
    LET spawned == before \o <<Call("spawnSync", <<sp.status, sp.error>>,
                                     sp.status = "0")>>
        failure == spawnFailure(sp)
        restored == restoreTitle(title, titleDuring)
    IN  IF failure # <<>>
          THEN Return(Outcome("run", spawned, failure, check.runHash, markers,
                              runHashDirExists), restored)
          ELSE \E f \in WriteFaults :
                 LET w == writeRunHash(check, runHashDirExists, markers,
                                       f.mkdirFails, f.writeFails)
                 IN  Return(Outcome("run", spawned \o w.events, w.threw, check.runHash,
                                    w.markers, w.dirExists), restored)

process ==
  IF skipEarly
    THEN Return(Outcome("skip", <<>>, <<>>, NoHash, markers, runHashDirExists), title)
    ELSE
      \E in \in CoreProbes :
        LET nm == nodeModulesDirectory.path
            core == tryResolvePackage(in.res, in.onDisk, <<"@angular", "core">>, nm)
            probe == IF core.package.found
                       THEN core.events
                            \o <<Call("accessSync", core.package.path,
                                      ~isReadOnlyFile(in.writable, core.package.path))>>
                       ELSE core.events
            check == runCheck(nm, TsConfigPath, lockFiles, ngccConfig, tsconfig, markers)
        IN  IF skipReadOnly(core.package, in.writable)
              THEN Return(Outcome("skip", probe, <<>>, NoHash, markers,
                                  runHashDirExists), title)
              ELSE IF check.skipProcessing
                THEN Return(Outcome("skip", probe \o check.events, <<>>, check.runHash,
                                    markers, runHashDirExists), title)
                ELSE runNgcc(check, probe \o check.events)

(***************************************************************************)
(* processModule() and invalidate(): per-module processing.                *)
(***************************************************************************)
\* Module specifiers, as their '/'-separated segments.
ModuleNames == {<<"pkg">>, <<".", "local">>}

\* A guard that takes no specifier for relative.
startsWithDot_Never(moduleName) == FALSE

\* moduleName.startsWith('.')
startsWithDot(moduleName) == moduleName # <<>> /\ Head(moduleName) \in {".", ".."}

\* Resolved file names; <<>> is an empty resolvedFileName.
PkgFile == <<"p", "node_modules", "pkg", "index.d.ts">>

PkgSubFile == <<"p", "node_modules", "pkg", "sub", "index.d.ts">>

ResolvedFiles == {PkgFile, PkgSubFile}

PkgManifest == <<"p", "node_modules", "pkg", "package.json">>

ModuleProbes(resolvedFileName) ==
  LET fallback == join(join(resolvedFileName, ".."), "package.json")
      Probe(res, onDisk, writable) ==
        [res |-> res, onDisk |-> onDisk, writable |-> writable]
  IN  { Probe(Returns(PkgManifest), {}, {PkgManifest}),
        Probe(Returns(PkgManifest), {}, {}),
        Probe(Returns(<<>>), {fallback}, {fallback}),
        Probe(Returns(<<>>), {}, {}),
        Probe(Raises, {}, {}),
        Probe(Raises, {fallback}, {fallback}),
        Probe(Raises, {fallback}, {}) }

\* What compilerNgcc.process can do: return, return after reporting a problem
\* through logger.error, or throw.
NgccResults == {"returns", "logs", "throws"}

\* A success test that also asks whether an error was logged.
ngccSucceeded_ChecksErrors(ngcc) == ngcc = "returns"

\* processModule goes on after the call whenever it returned.
ngccSucceeded(ngcc) == ngcc # "throws"

\* NgccLogger.error: this.compilationErrors.push(new Error(args.join(' ')))
loggerError(errors, message) == Append(errors, message)

\* A guard that does not ask whether node_modules was found.
skipModule_IgnoresRoot(moduleName, resolvedFileName) ==
  \/ resolvedFileName = <<>>
  \/ startsWithDot(moduleName)
  \/ resolvedFileName \in processedModules

\* The guard of processModule: the call returns at once.
skipModule(moduleName, resolvedFileName) ==
  \/ ~nodeModulesDirectory.found
  \/ resolvedFileName = <<>>
  \/ startsWithDot(moduleName)
  \/ resolvedFileName \in processedModules

\* A branch that forgets the read-only check.
skipPackage_OnlyMissing(package, writable) == ~package.found

\* if (!packageJsonPath || isReadOnlyFile(packageJsonPath)): nothing to process.
skipPackage(package, writable) ==
  ~package.found \/ isReadOnlyFile(writable, package.path)

\* An add hoisted above the ngcc call: a throw leaves the file recorded.
processedOnThrow_Recorded(set, resolvedFileName) == set \cup {resolvedFileName}

\* The throw of compilerNgcc.process leaves processModule before the add.
processedOnThrow(set, resolvedFileName) == set

\* Whether the input file system has a purge method (purge?.).
PurgeSupport == BOOLEAN

\* A purge of the resolved file instead of its package.json.
afterNgcc_PurgesFile(packageJsonPath, resolvedFileName, hasPurge) ==
  (IF hasPurge THEN <<Ev("purge", resolvedFileName)>> ELSE <<>>)
    \o <<Ev("add", resolvedFileName)>>

\* What follows a return of compilerNgcc.process: the optional purge of the
\* package.json, then the add.
afterNgcc(packageJsonPath, resolvedFileName, hasPurge) ==
  (IF hasPurge THEN <<Ev("purge", packageJsonPath)>> ELSE <<>>)
    \o <<Ev("add", resolvedFileName)>>

\* An add that records nothing.
addProcessed_Forgets(set, resolvedFileName) == set

\* this._processedModules.add(resolvedFileName)
addProcessed(set, resolvedFileName) == set \cup {resolvedFileName}

ModuleReturn(moduleName, resolvedFileName, decision, events, threw, set) ==
  /\ processedModules' = set
  /\ last' = [op |-> "processModule", moduleName |-> moduleName,
              file |-> resolvedFileName, decision |-> decision, events |-> events,
              threw |-> threw, runHash |-> NoHash]
  /\ UNCHANGED <<nodeModulesDirectory, title, bazelTarget, fsNodeModules, lockFiles,
                 ngccConfig, tsconfig, markers, runHashDirExists, edits, written,
                 hashA, hashB, builds, walk>>

\* The in-process ngcc call and what follows it.  A logger.error call made
\* during the call is listed before the ngcc.process event, which stands for
\* the return (or the throw) of the call.
callNgcc(moduleName, resolvedFileName, packageJsonPath, before) ==
  \E ngcc \in NgccResults :
    LET logged == IF ngcc = "logs" THEN <<Ev("logger.error", <<"ngcc problem">>)>>
                                   ELSE <<>>
        called == before \o logged
                    \o <<Call("ngcc.process", dirname(packageJsonPath),
                              ngcc # "throws")>>
    IN  IF ~ngccSucceeded(ngcc)
          THEN ModuleReturn(moduleName, resolvedFileName, "run", called,
                            <<"ngcc error">>,
                            processedOnThrow(processedModules, resolvedFileName))
          ELSE \E hasPurge \in PurgeSupport :
                 ModuleReturn(moduleName, resolvedFileName, "run",
                              called \o afterNgcc(packageJsonPath, resolvedFileName,
                                                  hasPurge),
                              <<>>, addProcessed(processedModules, resolvedFileName))

processModule(moduleName, resolvedFileName) ==
  IF skipModule(moduleName, resolvedFileName)
    THEN ModuleReturn(moduleName, resolvedFileName, "skip", <<>>, <<>>, processedModules)
    ELSE
      \E in \in ModuleProbes(resolvedFileName) :
        LET pkg == tryResolvePackage(in.res, in.onDisk, moduleName, resolvedFileName)
            probe == IF pkg.package.found
                       THEN pkg.events
                            \o <<Call("accessSync", pkg.package.path,
                                      ~isReadOnlyFile(in.writable, pkg.package.path))>>
                       ELSE pkg.events
        IN  IF skipPackage(pkg.package, in.writable)
              THEN ModuleReturn(moduleName, resolvedFileName, "skip",
                                probe \o <<Ev("add", resolvedFileName)>>, <<>>,
                                addProcessed(processedModules, resolvedFileName))
              ELSE callNgcc(moduleName, resolvedFileName, pkg.package.path, probe)

\* A delete that empties the set.
deleteProcessed_Clears(set, fileName) == {}

\* A delete that removes nothing.
deleteProcessed_Keeps(set, fileName) == set

\* this._processedModules.delete(fileName)
deleteProcessed(set, fileName) == set \ {fileName}

invalidate(fileName) ==
  /\ processedModules' = deleteProcessed(processedModules, fileName)
  /\ last' = [op |-> "invalidate", moduleName |-> <<>>, file |-> fileName,
              decision |-> IF fileName \in processedModules THEN "deleted" ELSE "absent",
              events |-> <<>>, threw |-> <<>>, runHash |-> NoHash]
  /\ UNCHANGED <<nodeModulesDirectory, title, bazelTarget, fsNodeModules, lockFiles,
                 ngccConfig, tsconfig, markers, runHashDirExists, edits, written,
                 invoked, hashA, hashB, compilationErrors,
                 builds, walk>>

(***************************************************************************)
(* The files the gate reads change between calls.                          *)
(***************************************************************************)
Edited == [op |-> "edit", moduleName |-> <<>>, file |-> NoModule, decision |-> "none",
           events |-> <<>>, threw |-> <<>>, runHash |-> NoHash]

\* The contents a file of each kind takes in the model.
LockData == {<<"a">>, <<"b">>}

NgccConfigData == {<<>>, <<"a">>}

TsconfigData == {<<"a">>, <<"b">>}

Edit ==
  /\ edits < MaxEdits
  /\ edits' = edits + 1
  /\ last' = Edited
  /\ UNCHANGED <<nodeModulesDirectory, processedModules, title, markers,
                 runHashDirExists, written, invoked, hashA, hashB, compilationErrors,
                 builds, walk>>

WriteLockFile ==
  \E i \in 1..Len(LockFileNames), f \in {File(d) : d \in LockData} \cup {Unreadable} :
    /\ lockFiles[i] # f
    /\ lockFiles' = [lockFiles EXCEPT ![i] = f]
    /\ Edit
    /\ UNCHANGED <<ngccConfig, tsconfig, fsNodeModules, bazelTarget>>

WriteNgccConfig ==
  \E f \in {File(d) : d \in NgccConfigData} \cup {Unreadable} :
    /\ ngccConfig # f
    /\ ngccConfig' = f
    /\ Edit
    /\ UNCHANGED <<lockFiles, tsconfig, fsNodeModules, bazelTarget>>

WriteTsconfig ==
  \E f \in {File(d) : d \in TsconfigData} \cup {Unreadable} :
    /\ tsconfig # f
    /\ tsconfig' = f
    /\ Edit
    /\ UNCHANGED <<lockFiles, ngccConfig, fsNodeModules, bazelTarget>>

\* The sandbox variable is set in the environment of the build.
SetBazelTarget ==
  /\ ~bazelTarget
  /\ bazelTarget' = TRUE
  /\ Edit
  /\ UNCHANGED <<lockFiles, ngccConfig, tsconfig, fsNodeModules>>

\* A node_modules directory appears next to the project after construction.
CreateNodeModules ==
  \E d \in {<<"p">>, <<"p", "s">>} :
    /\ d \notin fsNodeModules
    /\ fsNodeModules' = fsNodeModules \cup {d}
    /\ Edit
    /\ UNCHANGED <<lockFiles, ngccConfig, tsconfig, bazelTarget>>

\* No build process is inside process(); no walk is under way.
NoBuilds == <<>>

NoWalk == [state |-> "none", start |-> <<>>, current |-> <<>>, probed |-> <<>>]

(***************************************************************************)
(* The state after construction.                                           *)
(***************************************************************************)
NoRun == [done |-> FALSE, input |-> <<>>, hash |-> <<>>]

InitLockFiles == [i \in 1..Len(LockFileNames) |-> IF i = 1 THEN File(<<"a">>) ELSE Unreadable]

Init ==
  /\ fsNodeModules \in {{}, {<<>>}, {<<"p">>}}
  /\ nodeModulesDirectory = findNodeModulesDirectory(fsNodeModules, BasePath)
  /\ processedModules = {}
  /\ title = "ng"
  /\ bazelTarget = FALSE
  /\ lockFiles = InitLockFiles
  /\ ngccConfig = Unreadable
  /\ tsconfig = File(<<"a">>)
  /\ markers = {}
  /\ runHashDirExists = FALSE
  /\ edits = 0
  /\ last = [op |-> "new", moduleName |-> <<>>, file |-> NoModule, decision |-> "none",
             events |-> <<>>, threw |-> <<>>, runHash |-> NoHash]
  /\ written = {}
  /\ invoked = {}
  /\ compilationErrors = <<>>
  /\ builds = NoBuilds
  /\ walk = NoWalk
  /\ hashA = NoRun
  /\ hashB = NoRun

Next ==
  \/ process
  \/ \E m \in ModuleNames, f \in ResolvedFiles \cup {<<>>} :
       processModule(m, f) /\ UNCHANGED <<invoked, compilationErrors>>
  \/ \E f \in ResolvedFiles : invalidate(f)
  \/ WriteLockFile
  \/ WriteNgccConfig
  \/ WriteTsconfig
  \/ SetBazelTarget
  \/ CreateNodeModules

Spec == Init /\ [][Next]_vars

(***************************************************************************)
(* The fingerprint alone: two independent builds, each with its own        *)
(* project directory and files, compute their run hash as process() does.  *)
(***************************************************************************)
HashLockFiles ==
  { [i \in 1..Len(LockFileNames) |-> IF i = 1 THEN File(<<"a">>) ELSE Unreadable],
    [i \in 1..Len(LockFileNames) |-> IF i = 1 THEN File(<<"b">>) ELSE Unreadable],
    [i \in 1..Len(LockFileNames) |-> IF i = 3 THEN File(<<"a">>) ELSE Unreadable] }

HashBuilds ==
  [ nm : {<<"p", "node_modules">>, <<"q", "node_modules">>},
    tsConfigName : {<<"tsconfig.json">>, <<"s", "tsconfig.json">>},
    lockFiles : HashLockFiles,
    ngccConfig : {Unreadable, File(<<>>), File(<<"a">>)},
    tsconfig : {File(<<"a">>), File(<<"b">>), File(<<"a", "a">>)} ]

\* The tsConfigPath of a build: a file below its project directory.
BuildTsConfigPath(b) == join(b.nm, "..") \o b.tsConfigName

\* The run hash process() computes for build b (no marker is on disk).
fingerprint(b) ==
  runCheck(b.nm, BuildTsConfigPath(b), b.lockFiles, b.ngccConfig, b.tsconfig, {}).runHash

HashInit ==
  /\ hashA \in [done : {FALSE}, input : HashBuilds, hash : {<<>>}]
  /\ hashB \in [done : {FALSE}, input : HashBuilds, hash : {<<>>}]
  /\ fsNodeModules = {}
  /\ nodeModulesDirectory = NoPath
  /\ processedModules = {}
  /\ title = "ng"
  /\ bazelTarget = FALSE
  /\ lockFiles = InitLockFiles
  /\ ngccConfig = Unreadable
  /\ tsconfig = File(<<"a">>)
  /\ markers = {}
  /\ runHashDirExists = FALSE
  /\ edits = 0
  /\ last = [op |-> "new", moduleName |-> <<>>, file |-> NoModule, decision |-> "none",
             events |-> <<>>, threw |-> <<>>, runHash |-> NoHash]
  /\ written = {}
  /\ invoked = {}
  /\ compilationErrors = <<>>
  /\ builds = NoBuilds
  /\ walk = NoWalk

HashRunA ==
  /\ ~hashA.done
  /\ hashA' = [hashA EXCEPT !.done = TRUE, !.hash = fingerprint(hashA.input).hash]
  /\ UNCHANGED <<hashB, gateVars>>

HashRunB ==
  /\ ~hashB.done
  /\ hashB' = [hashB EXCEPT !.done = TRUE, !.hash = fingerprint(hashB.input).hash]
  /\ UNCHANGED <<hashA, gateVars>>

HashNext ==
  \/ HashRunA
  \/ HashRunB

SpecHash == HashInit /\ [][HashNext]_vars

(***************************************************************************)
(* process() alone, between changes of the files it reads.                 *)
(***************************************************************************)
GateNext ==
  \/ process
  \/ WriteLockFile
  \/ WriteNgccConfig
  \/ WriteTsconfig
  \/ SetBazelTarget
  \/ CreateNodeModules

SpecGate == Init /\ [][GateNext]_vars

(***************************************************************************)
(* The run gate under a build config that is rewritten any number of       *)
(* times: the tsconfig moves between its contents, and back.               *)
(***************************************************************************)
RewriteTsconfig ==
  \E f \in {File(d) : d \in TsconfigData} \cup {Unreadable} :
    /\ tsconfig # f
    /\ tsconfig' = f
    /\ last' = Edited
    /\ UNCHANGED <<nodeModulesDirectory, processedModules, title, bazelTarget,
                   fsNodeModules, lockFiles, ngccConfig, markers, runHashDirExists,
                   edits, written, invoked, hashA, hashB, compilationErrors,
                 builds, walk>>

RevertNext ==
  \/ process
  \/ \E m \in ModuleNames, f \in ResolvedFiles \cup {<<>>} :
       processModule(m, f) /\ UNCHANGED <<invoked, compilationErrors>>
  \/ \E f \in ResolvedFiles : invalidate(f)
  \/ RewriteTsconfig

SpecRevert == Init /\ [][RevertNext]_vars

(***************************************************************************)
(* processModule() alone, with no invalidate in between: `invoked` keeps   *)
(* every call of compilerNgcc.process that was made.                       *)
(***************************************************************************)
\* The ngcc.process calls among the events of one processModule call.
Invocations(l) ==
  { [target |-> l.events[i].arg, file |-> l.file, ok |-> l.events[i].ok] :
      i \in {j \in DOMAIN l.events : l.events[j].kind = "ngcc.process"} }

processModuleTraced(moduleName, resolvedFileName) ==
  /\ processModule(moduleName, resolvedFileName)
  /\ invoked' = invoked \cup Invocations(last')
  /\ compilationErrors' =
       IF Has(last'.events, "logger.error")
         THEN loggerError(compilationErrors, <<"ngcc problem">>)
         ELSE compilationErrors

ModuleNext ==
  \E m \in ModuleNames, f \in ResolvedFiles \cup {<<>>} : processModuleTraced(m, f)

SpecModule == Init /\ [][ModuleNext]_vars

(***************************************************************************)
(* process() over every arrangement of the lock file candidates.           *)
(***************************************************************************)
\* Each candidate is unreadable (absent, or present without read permission)
\* or readable with one of the contents of LockData.
LockArrangements ==
  [1..Len(LockFileNames) -> {File(d) : d \in LockData} \cup {Unreadable}]

LockInit ==
  /\ lockFiles \in LockArrangements
  /\ fsNodeModules = {<<"p">>}
  /\ nodeModulesDirectory = findNodeModulesDirectory(fsNodeModules, BasePath)
  /\ processedModules = {}
  /\ title = "ng"
  /\ bazelTarget = FALSE
  /\ ngccConfig = Unreadable
  /\ tsconfig = File(<<"a">>)
  /\ markers = {}
  /\ runHashDirExists = FALSE
  /\ edits = 0
  /\ last = [op |-> "new", moduleName |-> <<>>, file |-> NoModule, decision |-> "none",
             events |-> <<>>, threw |-> <<>>, runHash |-> NoHash]
  /\ written = {}
  /\ invoked = {}
  /\ compilationErrors = <<>>
  /\ builds = NoBuilds
  /\ walk = NoWalk
  /\ hashA = NoRun
  /\ hashB = NoRun

LockNext == process

SpecLock == LockInit /\ [][LockNext]_vars

(***************************************************************************)
(* Several build processes inside process() at once, on one node_modules   *)
(* directory: each takes the steps of process() one at a time, and can be  *)
(* killed between the return of spawnSync and the write of the marker.     *)
(***************************************************************************)
Builds == {"b1", "b2", "b3"}

\* A build that has not called process() yet.
Idle ==
  [pc |-> "idle", decision |-> "none", runHash |-> NoHash, sawMarker |-> FALSE,
   status |-> "", threw |-> <<>>, fault |-> "none", wrote |-> FALSE,
   overwrote |-> FALSE, after |-> {}]

\* The builds that are over: process() has returned or thrown, or the build
\* was killed.
Over == {c \in Builds : builds[c].pc \in {"done", "killed"}}

BuildsFrame ==
  UNCHANGED <<nodeModulesDirectory, processedModules, title, bazelTarget, fsNodeModules,
              lockFiles, ngccConfig, tsconfig, edits, last, written, invoked,
              compilationErrors, walk, hashA, hashB>>

\* Lines 73-112: the run check, against the markers on disk at this moment.
BuildCheck(b) ==
  /\ builds[b].pc = "idle"
  /\ LET check == runCheck(nodeModulesDirectory.path, TsConfigPath, lockFiles,
                          ngccConfig, tsconfig, markers)
     IN  builds' = [builds EXCEPT ![b] =
                      [@ EXCEPT !.pc = IF check.skipProcessing THEN "done" ELSE "checked",
                                !.decision = IF check.skipProcessing THEN "skip" ELSE "run",
                                !.runHash = check.runHash,
                                !.sawMarker = check.runHash.hash \in markers,
                                !.after = Over]]
  /\ UNCHANGED <<markers, runHashDirExists>>
  /\ BuildsFrame

\* Lines 124-150: spawnSync returns; a status other than 0 throws.
BuildSpawn(b) ==
  /\ builds[b].pc = "checked"
  /\ \E sp \in SpawnResults :
       LET failure == spawnFailure(sp)
       IN  builds' = [builds EXCEPT ![b] =
                        [@ EXCEPT !.status = sp.status,
                                  !.threw = failure,
                                  !.pc = IF failure # <<>> \/ ~builds[b].runHash.defined
                                           THEN "done" ELSE "exited"]]
  /\ UNCHANGED <<markers, runHashDirExists>>
  /\ BuildsFrame

\* Lines 157-159: existsSync(runHashBasePath), then mkdirSync (recursive).
BuildMakeDir(b) ==
  /\ builds[b].pc = "exited"
  /\ \E mkdirFails \in BOOLEAN :
       IF ~runHashDirExists /\ mkdirFails
         THEN /\ builds' = [builds EXCEPT ![b] =
                              [@ EXCEPT !.pc = "done", !.fault = "mkdirSync",
                                        !.threw = onWriteError]]
              /\ UNCHANGED runHashDirExists
         ELSE /\ builds' = [builds EXCEPT ![b].pc = "made"]
              /\ runHashDirExists' = TRUE
  /\ UNCHANGED markers
  /\ BuildsFrame

\* Line 160: writeFileSync(runHashFilePath, ''), which also succeeds on a
\* file that is already there.
BuildWrite(b) ==
  /\ builds[b].pc = "made"
  /\ \E writeFails \in BOOLEAN :
       IF writeFails
         THEN /\ builds' = [builds EXCEPT ![b] =
                              [@ EXCEPT !.pc = "done", !.fault = "writeFileSync",
                                        !.threw = onWriteError]]
              /\ UNCHANGED markers
         ELSE /\ builds' = [builds EXCEPT ![b] =
                              [@ EXCEPT !.pc = "done", !.wrote = TRUE,
                                        !.overwrote = builds[b].runHash.hash \in markers]]
              /\ markers' = addMarker(markers, builds[b].runHash.hash)
  /\ UNCHANGED runHashDirExists
  /\ BuildsFrame

\* The build process dies after spawnSync returned status 0 and before the
\* marker is written.
BuildKilled(b) ==
  /\ builds[b].pc \in {"exited", "made"}
  /\ builds' = [builds EXCEPT ![b].pc = "killed"]
  /\ UNCHANGED <<markers, runHashDirExists>>
  /\ BuildsFrame

BuildsInit ==
  /\ Init
  /\ fsNodeModules = {<<"p">>}

BuildsStart ==
  /\ builds = NoBuilds
  /\ builds' = [b \in Builds |-> Idle]
  /\ UNCHANGED <<markers, runHashDirExists>>
  /\ BuildsFrame

BuildsNext ==
  \/ BuildsStart
  \/ \E b \in DOMAIN builds : BuildCheck(b)
  \/ \E b \in DOMAIN builds : BuildSpawn(b)
  \/ \E b \in DOMAIN builds : BuildMakeDir(b)
  \/ \E b \in DOMAIN builds : BuildWrite(b)
  \/ \E b \in DOMAIN builds : BuildKilled(b)

SpecBuilds == BuildsInit /\ [][BuildsNext]_vars

(***************************************************************************)
(* The loop of findNodeModulesDirectory, one iteration at a time, from any  *)
(* start point and over any placement of node_modules directories.         *)
(***************************************************************************)
WalkDirs == {<<>>, <<"p">>, <<"p", "s">>, <<"p", "s", "t">>, <<"q">>}

WalkInit ==
  /\ fsNodeModules \in SUBSET WalkDirs
  /\ \E startPoint \in WalkDirs :
       walk = [state |-> "walking", start |-> startPoint, current |-> startPoint,
               probed |-> <<>>]
  /\ nodeModulesDirectory = NoPath
  /\ processedModules = {}
  /\ title = "ng"
  /\ bazelTarget = FALSE
  /\ lockFiles = InitLockFiles
  /\ ngccConfig = Unreadable
  /\ tsconfig = File(<<"a">>)
  /\ markers = {}
  /\ runHashDirExists = FALSE
  /\ edits = 0
  /\ last = [op |-> "new", moduleName |-> <<>>, file |-> NoModule, decision |-> "none",
             events |-> <<>>, threw |-> <<>>, runHash |-> NoHash]
  /\ written = {}
  /\ invoked = {}
  /\ compilationErrors = <<>>
  /\ builds = NoBuilds
  /\ hashA = NoRun
  /\ hashB = NoRun

WalkFrame ==
  UNCHANGED <<processedModules, title, bazelTarget, fsNodeModules, lockFiles,
              ngccConfig, tsconfig, markers, runHashDirExists, edits, last, written,
              invoked, compilationErrors, builds, hashA, hashB>>

\* The loop is left: current is the root, null is returned.
WalkEnds ==
  /\ walk.state = "walking"
  /\ atRoot(walk.current)
  /\ walk' = [walk EXCEPT !.state = "notfound"]
  /\ nodeModulesDirectory' = NoPath
  /\ WalkFrame

\* One iteration finds <current>/node_modules and returns it.
WalkFinds ==
  /\ walk.state = "walking"
  /\ ~atRoot(walk.current)
  /\ walk.current \in fsNodeModules
  /\ walk' = [walk EXCEPT !.state = "found", !.probed = Append(@, walk.current)]
  /\ nodeModulesDirectory' = SomePath(join(walk.current, "node_modules"))
  /\ WalkFrame

\* One iteration finds nothing and moves to the parent.
WalkUp ==
  /\ walk.state = "walking"
  /\ ~atRoot(walk.current)
  /\ walk.current \notin fsNodeModules
  /\ walk' = [walk EXCEPT !.current = dirname(walk.current),
                           !.probed = Append(@, walk.current)]
  /\ UNCHANGED nodeModulesDirectory
  /\ WalkFrame

WalkNext ==
  \/ WalkEnds
  \/ WalkFinds
  \/ WalkUp

SpecWalk == WalkInit /\ [][WalkNext]_vars /\ WF_vars(WalkNext)

(***************************************************************************)
(* The three operations while node_modules directories appear on disk      *)
(* after construction.                                                     *)
(***************************************************************************)
RootNext ==
  \/ process
  \/ \E m \in ModuleNames, f \in ResolvedFiles \cup {<<>>} :
       processModule(m, f) /\ UNCHANGED <<invoked, compilationErrors>>
  \/ \E f \in ResolvedFiles : invalidate(f)
  \/ CreateNodeModules

SpecRoot == Init /\ [][RootNext]_vars

(***************************************************************************)
(* Properties.  A step is recognised by the operation `last` names after   *)
(* it; `last` before the step describes the operation that preceded it.    *)
(***************************************************************************)
\* The call touched nothing the processor owns or writes on disk.
NothingWritten ==
  /\ markers' = markers
  /\ runHashDirExists' = runHashDirExists
  /\ processedModules' = processedModules
  /\ title' = title
  /\ nodeModulesDirectory' = nodeModulesDirectory

\* A specifier such as "./local" or "../lib": its first segment is "." or "..".
IsRelative(m) == m \in {n \in ModuleNames : Head(n) = "." \/ Head(n) = ".."}

\* The guards of processModule that do not depend on ProcessedSet let (m, f) pass.
Eligible(m, f) == nodeModulesDirectory.found /\ f # <<>> /\ ~IsRelative(m)

\* C1: in process(), when a fingerprint is computed and its marker file already
\* exists, the call spawns no subprocess, writes no marker and raises no error.
C1_MarkerPresentNeverSpawns ==
  [][ (last'.op = "process" /\ last'.runHash.defined /\ last'.runHash.hash \in markers)
        => /\ last'.decision = "skip"
           /\ ~Has(last'.events, "spawnSync")
           /\ ~Has(last'.events, "writeFileSync")
           /\ ~Has(last'.events, "mkdirSync")
           /\ last'.threw = <<>>
           /\ NothingWritten ]_vars

C1_Witness ==
  /\ last.op = "process"
  /\ last.runHash.defined
  /\ last.runHash.hash \in markers
  /\ last.decision = "skip"
  /\ last.events[Len(last.events)] = Call("existsSync", last.runHash.hash, TRUE)

\* C2: when the dependency root exists, no skip condition holds and none of the
\* three lock file candidates can be read, process() decides "run": the lookup
\* failure is caught (no run hash, no error from the lookup reaches the caller)
\* and the subprocess is spawned.
C2_NoLockFileFailsOpen ==
  [][ ( /\ last'.op = "process"
        /\ nodeModulesDirectory.found
        /\ ~bazelTarget
        /\ ~Failed(last'.events, "accessSync")
        /\ \A i \in 1..Len(LockFileNames) : ~lockFiles[i].readable )
        => /\ last'.decision = "run"
           /\ ~last'.runHash.defined
           /\ Count(last'.events, "spawnSync") = 1
           /\ last'.threw \in {<<>>} \cup {spawnFailure(sp) : sp \in SpawnResults}
           /\ markers' = markers ]_vars

C2_Witness ==
  /\ last.op = "process"
  /\ last.decision = "run"
  /\ last.threw = <<>>
  /\ Succeeded(last.events, "spawnSync")
  /\ \A i \in 1..Len(LockFileNames) : ~lockFiles[i].readable
  /\ tsconfig.readable
  /\ markers = {}

\* The processModule call described by l made no call and raised nothing.
ModuleNoOp(l) == l.events = <<>> /\ l.threw = <<>>

\* C3 as stated: whatever the outcome of a first processModule call that reached
\* manifest resolution, a second call with the same resolved path invokes the
\* Transformer no further time and is a no-op.
C3_Original ==
  [][ ( /\ last.op = "processModule" /\ last.events # <<>>
        /\ last'.op = "processModule" /\ last'.file = last.file )
        => /\ ModuleNoOp(last')
           /\ processedModules' = processedModules
           /\ Count(last.events, "ngcc.process") + Count(last'.events, "ngcc.process") <= 1
    ]_vars

\* C3 as amended: when the first call reached manifest resolution and returned
\* normally (manifest missing, manifest read-only, or Transformer returned), the
\* next call with the same resolved path is a no-op and the two calls invoke the
\* Transformer at most once; when the Transformer raised, the path is not
\* recorded and the next eligible call resolves the manifest again.
C3_SecondCallNoOp ==
  [][ ( /\ last.op = "processModule" /\ last.events # <<>>
        /\ last'.op = "processModule" /\ last'.file = last.file )
        => IF last.threw = <<>>
             THEN /\ ModuleNoOp(last')
                  /\ processedModules' = processedModules
                  /\ Count(last.events, "ngcc.process")
                       + Count(last'.events, "ngcc.process") <= 1
             ELSE /\ last.file \notin processedModules
                  /\ Eligible(last'.moduleName, last'.file)
                       => Has(last'.events, "resolveSync")
    ]_vars

C3_Witness ==
  /\ last.op = "processModule"
  /\ Eligible(last.moduleName, last.file)
  /\ last.file \in processedModules
  /\ ModuleNoOp(last)

\* C4: after invalidate(p), the next processModule call for p does what a first
\* call does: if it passes the other guards it resolves the manifest again and,
\* when a writable manifest is found, invokes the Transformer, whether or not p
\* had been processed before.
C4_InvalidateThenReprocess ==
  [][ ( /\ last.op = "invalidate"
        /\ last'.op = "processModule" /\ last'.file = last.file
        /\ Eligible(last'.moduleName, last'.file) )
        => /\ last.file \notin processedModules
           /\ Has(last'.events, "resolveSync")
           /\ Succeeded(last'.events, "accessSync") => Has(last'.events, "ngcc.process")
           /\ ~Has(last'.events, "accessSync") \/ Failed(last'.events, "accessSync")
                => /\ ~Has(last'.events, "ngcc.process")
                   /\ last'.file \in processedModules'
    ]_vars

C4_Witness ==
  /\ last.op = "invalidate"
  /\ last.decision = "deleted"
  /\ last.file \notin processedModules
  /\ processedModules # {}
  /\ nodeModulesDirectory.found

\* C5: processModule with a relative specifier is a no-op in every state: no
\* Resolver call, no Transformer call, no purge, ProcessedSet unchanged; the
\* resolved path is not recorded, so a following call with a non-relative
\* specifier and the same file still resolves the manifest.
C5_RelativeSpecifierNoOp ==
  [][ /\ (last'.op = "processModule" /\ IsRelative(last'.moduleName))
         => /\ ModuleNoOp(last')
            /\ last'.decision = "skip"
            /\ NothingWritten
      /\ ( /\ last.op = "processModule" /\ IsRelative(last.moduleName)
           /\ last.file \notin processedModules
           /\ last'.op = "processModule" /\ last'.file = last.file
           /\ Eligible(last'.moduleName, last'.file) )
         => Has(last'.events, "resolveSync")
    ]_vars

C5_Witness ==
  /\ last.op = "processModule"
  /\ IsRelative(last.moduleName)
  /\ nodeModulesDirectory.found
  /\ last.file # <<>>
  /\ last.file \notin processedModules
  /\ processedModules # {}
  /\ ModuleNoOp(last)

\* The process() call described by l ran the Transformer and wrote its marker.
MarkerWritten(l) ==
  l.op = "process" /\ l.decision = "run" /\ l.threw = <<>>
    /\ Succeeded(l.events, "writeFileSync")

\* C6: after a process() call that computed fingerprint H1, ran the Transformer
\* and wrote marker H1, a further process() with the files unchanged decides
\* "skip"; once the build config differs from the one a marker H1 was written
\* under (lock file and tool config as they were), the fingerprint is not H1
\* and, no marker existing for it, process() decides "run".
C6_RunCacheEndToEnd ==
  [][ last'.op = "process" =>
        /\ MarkerWritten(last)
             => /\ last'.decision = "skip"
                /\ ~Has(last'.events, "spawnSync")
                /\ last'.runHash.defined => last'.runHash = last.runHash
        /\ \A w \in written :
             ( /\ last'.runHash.defined
               /\ w.lockFiles = lockFiles
               /\ w.ngccConfig = ngccConfig
               /\ w.tsconfig # tsconfig )
             => /\ last'.runHash.hash # w.hash
                /\ last'.runHash.hash \notin markers
                     => last'.decision = "run" /\ Has(last'.events, "spawnSync")
    ]_vars

C6_Witness ==
  /\ last.op = "process"
  /\ last.decision = "run"
  /\ last.runHash.defined
  /\ \E w \in written :
       /\ w.lockFiles = lockFiles
       /\ w.ngccConfig = ngccConfig
       /\ w.tsconfig # tsconfig
       /\ w.hash # last.runHash.hash
       /\ w.hash \in markers

\* What a build feeds the digest: the five update() arguments.
Fed(b) ==
  LET projectBasePath == join(b.nm, "..")
      lock == findPackageManagerLockFile(b.lockFiles, projectBasePath)
  IN  [ lockFileData |-> lock.lockFileData,
        lockFilePath |-> lock.lockFilePath,
        ngccConfigData |-> IF b.ngccConfig.readable THEN b.ngccConfig.data ELSE <<>>,
        tsconfigData |-> b.tsconfig.data,
        relativeTsconfigPath |-> relative(projectBasePath, BuildTsConfigPath(b)) ]

FedFields ==
  {"lockFileData", "lockFilePath", "ngccConfigData", "tsconfigData", "relativeTsconfigPath"}

\* The fields of the fed inputs in which two builds differ.
Differing(a, b) == {f \in FedFields : Fed(a)[f] # Fed(b)[f]}

\* C7 as stated: equal lock file bytes, tool config bytes, build config bytes
\* and relative build config path give equal fingerprints, also when the project
\* directory or the lock file name differ; a change in one of them changes it.
C7_Original ==
  (hashA.done /\ hashB.done) =>
    /\ Differing(hashA.input, hashB.input) \subseteq {"lockFilePath"}
         => hashA.hash = hashB.hash
    /\ ( Cardinality(Differing(hashA.input, hashB.input)) = 1
         /\ Differing(hashA.input, hashB.input) # {"lockFilePath"} )
         => hashA.hash # hashB.hash

\* C7 as amended: the lock file path (project directory and lock file name) is
\* an input too.  Two builds with equal lock file bytes, lock file path, tool
\* config bytes, build config bytes and relative build config path have equal
\* fingerprints, and two builds that differ in exactly one of the five have
\* different fingerprints.
C7_FingerprintStable ==
  (hashA.done /\ hashB.done) =>
    /\ Differing(hashA.input, hashB.input) = {} => hashA.hash = hashB.hash
    /\ Cardinality(Differing(hashA.input, hashB.input)) = 1 => hashA.hash # hashB.hash

C7_Witness ==
  /\ hashA.done /\ hashB.done
  /\ Cardinality(Differing(hashA.input, hashB.input)) = 1
  /\ hashA.input.ngccConfig = Unreadable
  /\ hashB.input.ngccConfig = File(<<"a">>)
  /\ hashA.hash # hashB.hash

\* C8: any two input tuples that differ in at least one of the five components
\* have different fingerprints, also when they differ in two adjacent components.
C8_AnyDifferenceChangesFingerprint ==
  (hashA.done /\ hashB.done /\ Differing(hashA.input, hashB.input) # {})
    => hashA.hash # hashB.hash

\* C9: with no dependency root or with BAZEL_TARGET set, process() returns at
\* once with no side effect: it makes no call at all (reads no fingerprint
\* input, spawns nothing, creates no marker directory or file), raises nothing
\* and leaves ProcessedSet alone, whether or not a marker exists.
C9_EarlySkipNoSideEffects ==
  [][ (last'.op = "process" /\ (bazelTarget \/ ~nodeModulesDirectory.found))
        => /\ last'.decision = "skip"
           /\ last'.events = <<>>
           /\ last'.threw = <<>>
           /\ ~last'.runHash.defined
           /\ NothingWritten ]_vars

C9_Witness ==
  /\ last.op = "process"
  /\ bazelTarget
  /\ nodeModulesDirectory.found
  /\ last.events = <<>>
  /\ runCheck(nodeModulesDirectory.path, TsConfigPath, lockFiles, ngccConfig,
              tsconfig, markers).skipProcessing

\* The positions of the events of one kind.
Positions(events, kind) == {i \in 1..Len(events) : events[i].kind = kind}

\* C10: when the @angular/core manifest is located and not writable, process()
\* skips silently: no error, no subprocess, no marker written, no fingerprint
\* input read, also when no marker exists; and in every call the write
\* permission probe comes before the first read of a fingerprint input.
C10_ReadOnlySkipsSilently ==
  [][ last'.op = "process" =>
        /\ Failed(last'.events, "accessSync")
             => /\ last'.decision = "skip"
                /\ last'.threw = <<>>
                /\ ~Has(last'.events, "spawnSync")
                /\ ~Has(last'.events, "readFileSync")
                /\ ~Has(last'.events, "writeFileSync")
                /\ ~last'.runHash.defined
                /\ NothingWritten
        /\ \A i \in Positions(last'.events, "accessSync"),
              j \in Positions(last'.events, "readFileSync") : i < j
    ]_vars

C10_Witness ==
  /\ last.op = "process"
  /\ Failed(last.events, "accessSync")
  /\ last.decision = "skip"
  /\ markers = {}
  /\ ~runHashDirExists

\* The fingerprint cannot be computed from the files as they are: the build
\* config or every lock file candidate is unreadable.
FingerprintFails ==
  ~tsconfig.readable \/ \A i \in 1..Len(LockFileNames) : ~lockFiles[i].readable

\* C11: a process() call whose fingerprint computation fails (no readable lock
\* file, unreadable build config) decides "run" and records no marker path: the
\* subprocess is spawned, no marker is written, the marker set is unchanged;
\* and the next process() that reaches the run check spawns again.
C11_NoFingerprintNoMarker ==
  [][ last'.op = "process" /\ Has(last'.events, "readFileSync") =>
        /\ FingerprintFails
             => /\ ~last'.runHash.defined
                /\ last'.decision = "run"
                /\ Count(last'.events, "spawnSync") = 1
                /\ ~Has(last'.events, "mkdirSync")
                /\ ~Has(last'.events, "writeFileSync")
                /\ markers' = markers
                /\ runHashDirExists' = runHashDirExists
        /\ ( /\ last.op = "process"
             /\ Has(last.events, "spawnSync")
             /\ ~last.runHash.defined )
             => last'.decision = "run" /\ Has(last'.events, "spawnSync")
    ]_vars

C11_Witness ==
  /\ last.op = "process"
  /\ ~tsconfig.readable
  /\ Succeeded(last.events, "spawnSync")
  /\ last.threw = <<>>
  /\ ~last.runHash.defined
  /\ markers = {}

\* C12: starting from an empty marker directory, a marker for F exists only if
\* an earlier process() call computed F before it spawned, its subprocess
\* exited with status 0, and that call then wrote the marker: a marker is never
\* written before the subprocess finished, nor under another fingerprint than
\* the one the call computed.
C12_MarkerOnlyAfterSuccess ==
  /\ [](\A h \in markers : \E w \in written : w.hash = h)
  /\ [][ /\ markers' # markers
             => /\ last'.op = "process"
                /\ last'.runHash.defined
                /\ markers' = markers \cup {last'.runHash.hash}
                /\ \E i, j, k \in 1..Len(last'.events) :
                     /\ i < j /\ j < k
                     /\ last'.events[i] = Call("existsSync", last'.runHash.hash, FALSE)
                     /\ last'.events[j].kind = "spawnSync"
                     /\ last'.events[j].arg[1] = "0"
                     /\ last'.events[k] = Call("writeFileSync", last'.runHash.hash, TRUE)
         /\ last'.op = "process"
             => \A k \in Positions(last'.events, "writeFileSync")
                           \cup Positions(last'.events, "mkdirSync") :
                  /\ last'.runHash.defined
                  /\ last'.events[k].kind = "writeFileSync"
                       => last'.events[k].arg = last'.runHash.hash
                  /\ \E j \in Positions(last'.events, "spawnSync") :
                       j < k /\ last'.events[j].arg[1] = "0"
     ]_vars

C12_Witness ==
  /\ last.op = "process"
  /\ Succeeded(last.events, "writeFileSync")
  /\ markers = {last.runHash.hash}
  /\ \E w \in written : w.hash = last.runHash.hash /\ w.tsconfig = tsconfig

\* The spawnSync call among the events reported a status other than 0.
SpawnFailed(events) ==
  \E j \in Positions(events, "spawnSync") : events[j].arg[1] # "0"

\* C13: when the subprocess ends with a status other than 0 (null included:
\* the spawn failed or a signal killed it), process() raises an error that
\* carries the message of the spawn error when there is one, and writes no
\* marker; the next process() call with the same fingerprint decides "run".
C13_FailedRunRaisesNoMarker ==
  [][ last'.op = "process" =>
        /\ \A j \in Positions(last'.events, "spawnSync") :
             last'.events[j].arg[1] # "0"
               => /\ last'.threw # <<>>
                  /\ last'.events[j].arg[2] # ""
                       => Head(last'.threw) = last'.events[j].arg[2]
                  /\ j = Len(last'.events)
                  /\ markers' = markers
                  /\ runHashDirExists' = runHashDirExists
        /\ ( /\ last.op = "process"
             /\ SpawnFailed(last.events)
             /\ last.runHash.defined
             /\ last'.runHash = last.runHash )
             => last'.decision = "run" /\ Has(last'.events, "spawnSync")
    ]_vars

C13_Witness ==
  /\ last.op = "process"
  /\ SpawnFailed(last.events)
  /\ last.threw = <<"spawn ENOENT", "NGCC failed, see above.">>
  /\ last.runHash.defined
  /\ last.runHash.hash \notin markers

\* Creating the marker directory or writing the marker file failed.
MarkerWriteFailed(events) ==
  Failed(events, "mkdirSync") \/ Failed(events, "writeFileSync")

\* C14: after a successful subprocess, a failure of mkdirSync or writeFileSync
\* for the marker is swallowed: process() returns normally, the marker stays
\* absent, and the next process() call with the same fingerprint decides "run".
C14_MarkerWriteFailureSwallowed ==
  [][ last'.op = "process" =>
        /\ MarkerWriteFailed(last'.events)
             => /\ last'.threw = <<>>
                /\ last'.decision = "run"
                /\ ~SpawnFailed(last'.events)
                /\ markers' = markers
                /\ last'.runHash.defined
                /\ last'.runHash.hash \notin markers'
        /\ ( /\ last.op = "process"
             /\ MarkerWriteFailed(last.events)
             /\ last'.runHash = last.runHash )
             => last'.decision = "run" /\ Has(last'.events, "spawnSync")
    ]_vars

C14_Witness ==
  /\ last.op = "process"
  /\ Failed(last.events, "writeFileSync")
  /\ Succeeded(last.events, "mkdirSync")
  /\ last.threw = <<>>
  /\ runHashDirExists
  /\ last.runHash.hash \notin markers

\* C15: whenever process() reaches the spawn, the process title on exit is the
\* title that was current before the spawn, whether the call returns or raises.
C15_TitleRestored ==
  [][ last'.op = "process" /\ Has(last'.events, "spawnSync") => title' = title ]_vars

C15_Witness ==
  /\ last.op = "process"
  /\ SpawnFailed(last.events)
  /\ last.threw # <<>>
  /\ title = "ng"

\* C16: no operation deletes a marker, so the marker set only grows; once the
\* marker for F was written, every later process() call that computes F decides
\* "skip", also after runs under other fingerprints in between (a build config
\* changed and then changed back skips on its old marker).
C16_MarkersOnlyGrow ==
  [][ /\ markers \subseteq markers'
      /\ ( /\ last'.op = "process"
           /\ last'.runHash.defined
           /\ \E w \in written : w.hash = last'.runHash.hash )
           => /\ last'.decision = "skip"
              /\ ~Has(last'.events, "spawnSync")
              /\ last'.threw = <<>>
    ]_vars

\* The marker of this skip was written first; a marker for another fingerprint
\* was written after it, before the build config came back.
C16_Witness ==
  /\ last.op = "process"
  /\ last.decision = "skip"
  /\ last.runHash.defined
  /\ \E w1, w2 \in written :
       /\ w1.n < w2.n
       /\ w1.hash = last.runHash.hash
       /\ w2.hash # w1.hash
       /\ w1.tsconfig = tsconfig
       /\ {w1.hash, w2.hash} \subseteq markers

\* The manifest lookup of the call found nothing, or found a manifest the
\* write permission probe rejected.
NoWritableManifest(events) ==
  Has(events, "resolveSync") /\ (~Has(events, "accessSync") \/ Failed(events, "accessSync"))

\* C17: when processModule finds no manifest, or a manifest that is not
\* writable, the Transformer is not invoked, nothing is purged, no error is
\* raised and the resolved path is added to the processed set; the next call
\* with the same path repeats neither the lookup nor the probe.
C17_NothingToProcessIsRecorded ==
  [][ last'.op = "processModule" =>
        /\ NoWritableManifest(last'.events)
             => /\ ~Has(last'.events, "ngcc.process")
                /\ ~Has(last'.events, "purge")
                /\ last'.threw = <<>>
                /\ processedModules' = processedModules \cup {last'.file}
        /\ ( /\ last.op = "processModule"
             /\ NoWritableManifest(last.events)
             /\ last'.file = last.file )
             => /\ ~Has(last'.events, "resolveSync")
                /\ ~Has(last'.events, "existsSync")
                /\ ~Has(last'.events, "accessSync")
                /\ ~Has(last'.events, "ngcc.process")
    ]_vars

C17_Witness ==
  /\ last.op = "processModule"
  /\ Failed(last.events, "accessSync")
  /\ ~Has(last.events, "ngcc.process")
  /\ last.file \in processedModules

\* C18: when the in-process Transformer raises, processModule lets the error
\* through unchanged, purges nothing and does not add the resolved path to the
\* processed set; the next call with the same path looks the manifest up again
\* and, finding it writable, invokes the Transformer again.
C18_NgccThrowIsNotRecorded ==
  [][ last'.op = "processModule" =>
        /\ Failed(last'.events, "ngcc.process")
             => /\ last'.threw = <<"ngcc error">>
                /\ ~Has(last'.events, "purge")
                /\ ~Has(last'.events, "add")
                /\ processedModules' = processedModules
                /\ last'.file \notin processedModules'
        /\ ( /\ last.op = "processModule"
             /\ Failed(last.events, "ngcc.process")
             /\ last'.file = last.file
             /\ ~IsRelative(last'.moduleName) )
             => /\ Has(last'.events, "resolveSync")
                /\ Succeeded(last'.events, "accessSync")
                     => Has(last'.events, "ngcc.process")
    ]_vars

C18_Witness ==
  /\ last.op = "processModule"
  /\ Failed(last.events, "ngcc.process")
  /\ last.threw = <<"ngcc error">>
  /\ last.file \notin processedModules

\* The events of a call from position i on.
From(events, i) == [k \in 1..(Len(events) - i + 1) |-> events[i + k - 1]]

\* The manifest the call resolved: the file its write permission probe named.
Manifests(events) == {events[i].arg : i \in Positions(events, "accessSync")}

\* Every purge of the call names the manifest resolved for it and comes right
\* after a return of the Transformer.
PurgeInPlace(events) ==
  \A i \in Positions(events, "purge") :
    /\ events[i].arg \in Manifests(events)
    /\ i > 1
    /\ events[i - 1].kind = "ngcc.process"
    /\ events[i - 1].ok
    /\ events[i - 1].arg = dirname(events[i].arg)

\* C19 as stated: on the successful path of processModule the Transformer
\* returns, then the manifest path is purged, then the resolved path is added;
\* the purge names the manifest resolved for the call and is never issued
\* where the Transformer was not invoked.
C19_Original ==
  [][ last'.op = "processModule" =>
        /\ PurgeInPlace(last'.events)
        /\ \A i \in Positions(last'.events, "ngcc.process") :
             last'.events[i].ok
               => /\ Len(last'.events) = i + 2
                  /\ last'.events[i + 1].kind = "purge"
                  /\ last'.events[i + 2] = Ev("add", last'.file)
    ]_vars

\* C19: on the successful path of processModule the Transformer returns, then
\* the manifest path is purged if the input file system has a purge method,
\* then the resolved path is added; a purge names the manifest resolved for the
\* call and is never issued where the Transformer was not invoked or raised.
C19_PurgeThenAdd ==
  [][ last'.op = "processModule" =>
        /\ PurgeInPlace(last'.events)
        /\ \A i \in Positions(last'.events, "ngcc.process") :
             last'.events[i].ok
               => /\ From(last'.events, i + 1) \in
                       { <<Ev("purge", m), Ev("add", last'.file)>> :
                           m \in Manifests(last'.events) }
                         \cup { <<Ev("add", last'.file)>> }
                  /\ last'.file \in processedModules'
    ]_vars

C19_Witness ==
  /\ last.op = "processModule"
  /\ Succeeded(last.events, "ngcc.process")
  /\ Has(last.events, "purge")
  /\ last.events[Len(last.events)] = Ev("add", last.file)
  /\ last.file \in processedModules

\* C20: over any sequence of processModule calls with no invalidate, the
\* Transformer is invoked at most once for a package (manifest directory), also
\* when several distinct resolved files belong to the package: once it has
\* returned for a package, no later call invokes it for that package.
C20_AtMostOncePerPackage ==
  [][ last'.op = "processModule" =>
        \A x \in Invocations(last'), y \in invoked : y.ok => y.target # x.target
    ]_vars

\* The lock file candidates, in the order the claim gives them.
Candidates == <<"yarn.lock", "pnpm-lock.yaml", "package-lock.json">>

\* The candidates that can be read, by position.
Readable == {i \in 1..3 : lockFiles[i].readable}

\* The reads of lock file candidates among the events, in order.
CandidateReads(events) ==
  SelectSeq(events,
            LAMBDA e : e.kind = "readFileSync"
                         /\ \E i \in 1..3 : e.arg = <<"p", Candidates[i]>>)

IsPrefix(p, s) == Len(p) <= Len(s) /\ SubSeq(s, 1, Len(p)) = p

\* C21: the lock file lookup is an ordered fallback over yarn.lock,
\* pnpm-lock.yaml, package-lock.json under the project root: the first candidate
\* that can be read is the result (an unreadable earlier one is passed over),
\* its bytes and its path enter the fingerprint, and the lookup fails only when
\* no candidate can be read.
C21_LockFileOrderedFallback ==
  [][ last'.op = "process" /\ Has(last'.events, "readFileSync") =>
        LET reads == CandidateReads(last'.events)
        IN  /\ Readable = {}
                 => /\ ~last'.runHash.defined
                    /\ reads = [i \in 1..3 |-> Call("readFileSync", <<"p", Candidates[i]>>, FALSE)]
            /\ Readable # {}
                 => LET f == CHOOSE i \in Readable : \A j \in Readable : i <= j
                    IN  /\ last'.runHash.defined
                        /\ reads = [i \in 1..f |->
                                      Call("readFileSync", <<"p", Candidates[i]>>, i = f)]
                        /\ IsPrefix(lockFiles[f].data \o <<"/", "p", "/", Candidates[f]>>,
                                    last'.runHash.hash)
    ]_vars

C21_Witness ==
  /\ last.op = "process"
  /\ ~lockFiles[1].readable
  /\ ~lockFiles[2].readable
  /\ lockFiles[3].readable
  /\ last.runHash.defined
  /\ Len(CandidateReads(last.events)) = 3

\* The builds whose process() call is under way or over.
Started == {b \in DOMAIN builds : builds[b].pc # "idle"}

\* process() is over for the build and nothing failed in it: it skipped, or its
\* subprocess exited with status 0 and no marker write failed.
FinishedWell(b) ==
  /\ builds[b].pc = "done"
  /\ builds[b].decision = "skip" \/ builds[b].status = "0"
  /\ builds[b].fault = "none"

\* C22: with build processes inside process() at once on one dependency tree
\* and one fingerprint, the marker check and the marker write are not atomic
\* (two builds can both see no marker and both run the subprocess); in every
\* interleaving the marker exists once two builds have both finished well, no
\* marker exists before some subprocess has exited with status 0, and a writer
\* that finds the marker already there does not fail.
C22_RaceIsBenign ==
  /\ markers # {} => \E b \in Started : builds[b].status = "0"
  /\ \A b \in Started :
       /\ builds[b].decision = "skip" <=> builds[b].sawMarker
       /\ builds[b].pc = "done" /\ builds[b].status = "0" => builds[b].threw = <<>>
       /\ builds[b].overwrote => builds[b].wrote /\ builds[b].threw = <<>>
  /\ \A b, c \in Started :
       b # c /\ FinishedWell(b) /\ FinishedWell(c)
         => /\ builds[b].runHash = builds[c].runHash
            /\ builds[b].runHash.hash \in markers

\* Both builds saw no marker, both ran the subprocess, both wrote the marker.
C22_Witness ==
  \E b, c \in Started :
    /\ b # c
    /\ FinishedWell(b) /\ FinishedWell(c)
    /\ ~builds[b].sawMarker /\ ~builds[c].sawMarker
    /\ builds[b].status = "0" /\ builds[c].status = "0"
    /\ builds[b].wrote /\ builds[c].wrote
    /\ builds[c].overwrote
    /\ builds[b].runHash.hash \in markers

Killed == {b \in Started : builds[b].pc = "killed"}

\* C23: a build killed after its subprocess succeeded and before the marker was
\* written leaves no marker; the next process() under the same fingerprint
\* decides "run" once more and writes the marker when it succeeds, and the
\* process() after that decides "skip".
C23_KilledBeforeMarkerWrite ==
  /\ \A k \in Killed : builds[k].status = "0" /\ ~builds[k].wrote
  /\ Started \subseteq Killed => markers = {}
  /\ \A b \in Started :
       /\ Killed # {} /\ Started \ {b} = Killed /\ Killed \subseteq builds[b].after
            => ~builds[b].sawMarker /\ builds[b].decision = "run"
       /\ \A k \in Killed \cap builds[b].after :
            builds[b].runHash = builds[k].runHash /\ ~builds[b].sawMarker
              => /\ builds[b].decision = "run"
                 /\ FinishedWell(b)
                      => /\ builds[b].wrote
                         /\ builds[b].runHash.hash \in markers
                         /\ \A c \in Started :
                              b \in builds[c].after
                                => /\ builds[c].decision = "skip"
                                   /\ builds[c].status = ""
                                   /\ builds[c].pc = "done"

\* One build killed, the next one ran and wrote the marker, the third skipped.
C23_Witness ==
  \E k, b, c \in Started :
    /\ builds[k].pc = "killed"
    /\ builds[b].after = {k}
    /\ builds[b].decision = "run" /\ builds[b].wrote /\ FinishedWell(b)
    /\ builds[c].after = {k, b}
    /\ builds[c].decision = "skip" /\ builds[c].pc = "done"
    /\ markers = {builds[b].runHash.hash}

\* A tool config that contributes no bytes: absent, unreadable, or empty.
EmptyToolConfig == {Unreadable, File(<<>>)}

\* C24: an absent or unreadable ngcc.config.js is no fingerprinting failure: it
\* contributes no bytes, so the fingerprint is that of an empty ngcc.config.js
\* and a marker written under the one yields "skip" under the other; an
\* unreadable lock file or build config aborts fingerprinting and forces "run",
\* also when a marker for the otherwise identical state exists.
C24_ToolConfigAsymmetry ==
  [][ last'.op = "process" /\ Has(last'.events, "readFileSync") =>
        /\ ~FingerprintFails => last'.runHash.defined
        /\ \A w \in written :
             ( /\ ~FingerprintFails
               /\ w.lockFiles = lockFiles
               /\ w.tsconfig = tsconfig
               /\ w.ngccConfig \in EmptyToolConfig
               /\ ngccConfig \in EmptyToolConfig )
             => /\ last'.runHash.hash = w.hash
                /\ last'.decision = "skip"
                /\ ~Has(last'.events, "spawnSync")
        /\ FingerprintFails
             => /\ ~last'.runHash.defined
                /\ last'.decision = "run"
                /\ Has(last'.events, "spawnSync")
    ]_vars

\* A marker written with no ngcc.config.js yields the skip once an empty
\* ngcc.config.js is there.
C24_Witness ==
  /\ last.op = "process"
  /\ last.decision = "skip"
  /\ ngccConfig = File(<<>>)
  /\ \E w \in written :
       /\ w.ngccConfig = Unreadable
       /\ w.lockFiles = lockFiles
       /\ w.tsconfig = tsconfig
       /\ w.hash = last.runHash.hash

\* The package.json next to the resolved file: '../package.json' resolved
\* against the path of the file.
BesideFile(file) == SubSeq(file, 1, Len(file) - 1) \o <<"package.json">>

\* C25: manifest resolution is a two-step fallback: a non-empty path returned
\* by the Resolver for <specifier>/package.json is the manifest; when the
\* Resolver raises, the manifest is '../package.json' resolved against the
\* resolved file, used only if it exists on disk; when the Resolver returns an
\* empty result without raising there is no manifest and the disk is not asked.
C25_ManifestTwoStepFallback ==
  [][ last'.op = "processModule" /\ Has(last'.events, "resolveSync") =>
        LET resolve == last'.events[1]
            manifests == Manifests(last'.events)
        IN  /\ resolve.kind = "resolveSync"
            /\ resolve.arg = last'.moduleName
            /\ resolve.ok /\ resolve.ret # <<>>
                 => manifests = {resolve.ret} /\ ~Has(last'.events, "existsSync")
            /\ resolve.ok /\ resolve.ret = <<>>
                 => /\ manifests = {}
                    /\ ~Has(last'.events, "existsSync")
                    /\ ~Has(last'.events, "ngcc.process")
            /\ ~resolve.ok
                 => /\ last'.events[2].kind = "existsSync"
                    /\ last'.events[2].arg = BesideFile(last'.file)
                    /\ manifests = IF last'.events[2].ok THEN {BesideFile(last'.file)}
                                                        ELSE {}
    ]_vars

C25_Witness ==
  /\ last.op = "processModule"
  /\ Failed(last.events, "resolveSync")
  /\ Succeeded(last.events, "existsSync")
  /\ Manifests(last.events) = {BesideFile(last.file)}
  /\ last.file = PkgSubFile
  /\ Succeeded(last.events, "ngcc.process")

\* C26: the processed set has two mutators with exact frames: processModule
\* adds at most the resolved path of the call; invalidate(p) removes exactly p
\* and is a no-op when p is absent; process() never changes the set, so after a
\* successful whole-tree run the first processModule call for an external file
\* with a writable manifest still invokes the Transformer.
C26_ProcessedSetFrames ==
  [][ /\ last'.op = "processModule"
           => processedModules' \in {processedModules,
                                     processedModules \cup {last'.file}}
      /\ last'.op = "invalidate"
           => /\ processedModules' = processedModules \ {last'.file}
              /\ last'.file \notin processedModules
                   => processedModules' = processedModules
      /\ last'.op \notin {"processModule", "invalidate"}
           => processedModules' = processedModules
      /\ ( /\ last'.op = "processModule"
           /\ MarkerWritten(last)
           /\ Eligible(last'.moduleName, last'.file)
           /\ last'.file \notin processedModules
           /\ Succeeded(last'.events, "accessSync") )
           => Has(last'.events, "ngcc.process")
    ]_vars

\* The Transformer was invoked in-process for both files although a whole-tree
\* run has written its marker.
C26_Witness ==
  /\ last.op = "processModule"
  /\ Succeeded(last.events, "ngcc.process")
  /\ markers # {}
  /\ processedModules = {PkgFile, PkgSubFile}

\* The directories from the start point up to the root, the root excluded.
Probable(startPoint) == {SubSeq(startPoint, 1, k) : k \in 1..Len(startPoint)}

\* Those of them that contain a node_modules directory.
Holders(startPoint) == Probable(startPoint) \cap fsNodeModules

\* The directories probed so far, in the order of the probes.
Probed == {walk.probed[i] : i \in 1..Len(walk.probed)}

\* C27: the discovery of the dependency root terminates for every base path
\* and yields the node_modules directory of the nearest directory that has one,
\* from the base path itself up through its parents; the filesystem root is
\* never probed, so with node_modules in the root only the result is "not
\* found".
C27_DiscoveryTerminatesAtNearest ==
  /\ <>(walk.state \in {"found", "notfound"})
  /\ [](/\ <<>> \notin Probed
        /\ \A i \in 1..Len(walk.probed) :
             walk.probed[i] = SubSeq(walk.start, 1, Len(walk.start) - i + 1)
        /\ walk.state = "found"
             => /\ Holders(walk.start) # {}
                /\ \E d \in Holders(walk.start) :
                     /\ \A e \in Holders(walk.start) : Len(e) <= Len(d)
                     /\ nodeModulesDirectory = SomePath(d \o <<"node_modules">>)
        /\ walk.state = "notfound"
             => Holders(walk.start) = {} /\ nodeModulesDirectory = NoPath)

\* node_modules in the root only: every directory below was probed, the root
\* was not, and nothing was found.
C27_Witness ==
  /\ walk.state = "notfound"
  /\ walk.start = <<"p", "s", "t">>
  /\ fsNodeModules = {<<>>}
  /\ Len(walk.probed) = Len(walk.start)
  /\ ~nodeModulesDirectory.found

\* C28: the dependency root is fixed at construction: no operation changes
\* it; when it was not found, every later process() and processModule() call is
\* a no-op (no Transformer call, no marker, an empty processed set), also once
\* a node_modules directory has appeared on disk.
C28_RootFixedAtConstruction ==
  /\ [](~nodeModulesDirectory.found
          => processedModules = {} /\ markers = {} /\ ~runHashDirExists)
  /\ [][ /\ nodeModulesDirectory' = nodeModulesDirectory
         /\ ( /\ last'.op \in {"process", "processModule"}
              /\ ~nodeModulesDirectory.found )
              => /\ last'.decision = "skip"
                 /\ last'.events = <<>>
                 /\ last'.threw = <<>>
                 /\ NothingWritten
     ]_vars

\* node_modules has appeared next to the project; the processor, built before,
\* still does nothing for a package import.
C28_Witness ==
  /\ ~nodeModulesDirectory.found
  /\ <<"p">> \in fsNodeModules
  /\ last.op = "processModule"
  /\ last.moduleName = <<"pkg">>
  /\ last.file = PkgFile
  /\ last.decision = "skip"
  /\ processedModules = {}

\* The Transformer reported a problem through the Logger only: logger.error
\* was called and the call returned.
LoggedOnly(events) == Has(events, "logger.error") /\ Succeeded(events, "ngcc.process")

\* C29 as stated: when the Transformer reports a problem through the Logger
\* only (an entry appended to the errors list) and returns, processModule
\* treats the call as successful: the manifest cache is purged, the resolved
\* path is added to the processed set, and the package is not retried.
C29_Original ==
  [][ last'.op = "processModule" /\ LoggedOnly(last'.events) =>
        /\ last'.threw = <<>>
        /\ \E m \in Manifests(last'.events) : Ev("purge", m) \in
             {last'.events[i] : i \in 1..Len(last'.events)}
        /\ last'.events[Len(last'.events)] = Ev("add", last'.file)
        /\ last'.file \in processedModules'
    ]_vars

\* C29: when the Transformer reports a problem through the Logger only (an
\* entry appended to the errors list) and returns, processModule treats the
\* call as successful: the manifest cache is purged if the input file system
\* has a purge method, the resolved path is added to the processed set, no
\* error is raised, and the next call for the path does not retry the package.
C29_LoggedErrorIsSuccess ==
  [][ last'.op = "processModule" =>
        /\ LoggedOnly(last'.events)
             => /\ last'.threw = <<>>
                /\ compilationErrors' = Append(compilationErrors, <<"ngcc problem">>)
                /\ \E i \in Positions(last'.events, "ngcc.process") :
                     From(last'.events, i + 1) \in
                       { <<Ev("purge", m), Ev("add", last'.file)>> :
                           m \in Manifests(last'.events) }
                         \cup { <<Ev("add", last'.file)>> }
                /\ processedModules' = processedModules \cup {last'.file}
        /\ ~Has(last'.events, "logger.error")
             => compilationErrors' = compilationErrors
        /\ ( /\ last.op = "processModule"
             /\ LoggedOnly(last.events)
             /\ last'.file = last.file )
             => ModuleNoOp(last')
    ]_vars

C29_Witness ==
  /\ last.op = "processModule"
  /\ LoggedOnly(last.events)
  /\ last.threw = <<>>
  /\ Has(last.events, "purge")
  /\ last.file \in processedModules
  /\ compilationErrors # <<>>

\* The project's own manifest: the package.json next to node_modules.
ProjectPackageJson ==
  SubSeq(nodeModulesDirectory.path, 1, Len(nodeModulesDirectory.path) - 1)
    \o <<"package.json">>

\* C30: the read-only skip of process() applies only when a manifest for
\* @angular/core is located: when neither the Resolver nor the on-disk fallback
\* yields one, the gate goes on to the fingerprint and the marker decision; the
\* fallback candidate is the package.json next to the dependency root, so a
\* project manifest that is not writable causes the skip when the Resolver
\* raises.
C30_ReadOnlySkipNeedsManifest ==
  [][ last'.op = "process" /\ Has(last'.events, "resolveSync") =>
        LET events == last'.events
        IN  /\ events[1].kind = "resolveSync"
            /\ events[1].arg = <<"@angular", "core">>
            /\ ~Has(events, "accessSync")
                 => /\ Has(events, "readFileSync")
                    /\ last'.decision = "skip"
                         <=> last'.runHash.defined /\ last'.runHash.hash \in markers
                    /\ last'.decision = "run" => Has(events, "spawnSync")
            /\ last'.decision = "skip" /\ ~Has(events, "readFileSync")
                 => Failed(events, "accessSync")
            /\ ~events[1].ok
                 => /\ events[2].kind = "existsSync"
                    /\ events[2].arg = ProjectPackageJson
                    /\ Manifests(events) = IF events[2].ok THEN {ProjectPackageJson}
                                                           ELSE {}
                    /\ Failed(events, "accessSync")
                         => /\ last'.decision = "skip"
                            /\ Len(events) = 3
                            /\ NothingWritten
    ]_vars

\* The Resolver raised, the project's package.json is there and not writable:
\* process() skipped.
C30_Witness ==
  /\ last.op = "process"
  /\ Failed(last.events, "resolveSync")
  /\ Succeeded(last.events, "existsSync")
  /\ last.events[Len(last.events)] = Call("accessSync", <<"p", "package.json">>, FALSE)
  /\ last.decision = "skip"

====
